---- MODULE Spec2Model ----
(***************************************************************************)
(* Model of pyload's configuration store (src/pyload/config/parser.py):    *)
(* ConfigOption, ConfigSection and ConfigParser with its backing file.     *)
(*                                                                         *)
(* The object graph is a heap of option and section objects; object 0 is   *)
(* the ConfigParser (the root section).  The backing file and its          *)
(* `.old` neighbour are modelled as sequences of INI blocks.  Labels and   *)
(* descriptions (pure metadata) are left out.                              *)
(***************************************************************************)
EXTENDS Integers, Sequences, FiniteSets, TLC

\* ------------------------------------------------------------------ bounds
MaxObj == 2        \* option/section objects besides the root
MaxStores == 1     \* serializations written by calls other than close()
MaxOpens == 2      \* ConfigParser constructions in one behaviour

\* ------------------------------------------------------------ input domains
\* Names offered to add_option/add_section/set.
Names == {"mode", "Mode", "a:b", "A:b", "default", "DEFAULT"}

\* Raw values offered to add_option/set (text, as a front-end hands them in).
RawStrings == {"fast", "30"}

\* str.lower() on the names of the model.
Lower(n) ==
    CASE n = "Mode" -> "mode"
      [] n = "A:b" -> "a:b"
      [] n = "DEFAULT" -> "default"
      [] OTHER -> n

\* name.split(SECTION_SEPARATOR) on the names of the model
SECTION_SEPARATOR == ":"
Split(n) ==
    CASE n = "a:b" -> <<"a", "b">>
      [] n = "A:b" -> <<"A", "b">>
      [] OTHER -> <<n>>

\* `SECTION_SEPARATOR in name`
HasSeparator(n) == Len(Split(n)) > 1

\* ------------------------------------------------------------------ values
\* Python values: None, text, integers.  One record shape for all of them.
NoneV == [k |-> "none", s |-> "", n |-> 0]
StrV(x) == [k |-> "str", s |-> x, n |-> 0]
IntV(x) == [k |-> "int", s |-> "", n |-> x]

RawValues == {StrV(x) : x \in RawStrings}

\* int(text): decimal text to integer, ValueError otherwise.
IntStrings == {"30", "7"}
StrToInt(x) == CASE x = "30" -> 30 [] x = "7" -> 7 [] OTHER -> 0
\* str(integer)
IntToStr(i) == CASE i = 30 -> "30" [] i = 7 -> "7" [] OTHER -> "0"

\* Result of a call that may raise.
Ok(v) == [err |-> "none", v |-> v]
Raise(e) == [err |-> e, v |-> NoneV]

\* A local variable: the value is computed once and named in what follows.
Bind(value, rest(_)) == rest(value)

\* The members of InputType the model uses; "" stands for input_type=None.
InputType == {"Str", "Int"}
DEFAULT_TYPE == "Str"

\* convert_map[type](value)
convert_map(type, value) ==
    CASE type = "Str" ->
           IF value.k = "int" THEN Ok(StrV(IntToStr(value.n))) ELSE Ok(value)
      [] type = "Int" ->
           IF value.k = "int" THEN Ok(value)
           ELSE IF value.s \in IntStrings THEN Ok(IntV(StrToInt(value.s)))
           ELSE Raise("ValueError")
      [] OTHER -> Raise("KeyError")

\* ConfigOption._normalize_value
normalize_value(type, value) ==
    IF value = NoneV THEN Ok(value) ELSE convert_map(type, value)

\* ------------------------------------------------------------------- heap
\* Objects: the root ConfigParser is object 0, the others are allocated by
\* the ConfigOption and ConfigSection constructors.
ROOT == 0
ObjIds == 0 .. MaxObj
NoRef == 0 - 1

FreeObj ==
    [kind |-> "free", type |-> "", value |-> NoneV, default |-> NoneV,
     allowed |-> <<>>, items |-> <<>>]

\* ConfigSection.__init__ with an empty config
EmptySection ==
    [kind |-> "section", type |-> "", value |-> NoneV, default |-> NoneV,
     allowed |-> <<>>, items |-> <<>>]

\* ConfigOption._set_type
set_type(input_type) ==
    LET t == IF input_type = "" THEN DEFAULT_TYPE ELSE input_type
    IN IF t \in InputType THEN [err |-> "none", type |-> t]
       ELSE [err |-> "InvalidValueError", type |-> ""]

\* tuple(self._normalize_value(v) for v in allowed): first failure, if any
RECURSIVE normalize_all(_, _)
normalize_all(type, raws) ==
    IF raws = <<>> THEN [err |-> "none", vs |-> <<>>]
    ELSE LET h == normalize_value(type, Head(raws))
         IN IF h.err # "none" THEN [err |-> h.err, vs |-> <<>>]
            ELSE LET t == normalize_all(type, Tail(raws))
                 IN IF t.err # "none" THEN t
                    ELSE [err |-> "none", vs |-> <<h.v>> \o t.vs]

\* ConfigOption._set_allowed
set_allowed(type, allowed) ==
    IF allowed = <<>> THEN [err |-> "none", vs |-> <<>>]
    ELSE normalize_all(type, allowed)

\* ConfigOption.__init__: _set_type, _set_value, _set_allowed in this order.
\* The value is not compared with the allowed values.
ConfigOption(value, allowed_values, input_type) ==
    LET t == set_type(input_type)
        v == normalize_value(t.type, value)
        a == set_allowed(t.type, allowed_values)
    IN IF t.err # "none" THEN [err |-> t.err, obj |-> FreeObj]
       ELSE IF v.err # "none" THEN [err |-> v.err, obj |-> FreeObj]
       ELSE IF a.err # "none" THEN [err |-> a.err, obj |-> FreeObj]
       ELSE [err |-> "none",
             obj |-> [kind |-> "option", type |-> t.type, value |-> v.v,
                      default |-> v.v, allowed |-> a.vs, items |-> <<>>]]

Range(seq) == {seq[i] : i \in DOMAIN seq}

\* InscDict.lowerkeys(): the keys of a section, lower-cased
lowerkeys(h, s) == {Lower(h[s].items[i].name) : i \in DOMAIN h[s].items}

\* InscDict.__getitem__: case-insensitive lookup, NoRef for KeyError
getitem(h, s, name) ==
    LET hits == {i \in DOMAIN h[s].items :
                    Lower(h[s].items[i].name) = Lower(name)}
    IN IF hits = {} THEN NoRef
       ELSE h[s].items[CHOOSE i \in hits : TRUE].ref

\* InscDict.__setitem__: a new key is appended in order, a key that is
\* present (whatever its case) gets the new entry
setitem(h, s, name, ref) ==
    LET hits == {i \in DOMAIN h[s].items :
                    Lower(h[s].items[i].name) = Lower(name)}
    IN IF hits = {}
       THEN [h EXCEPT ![s].items =
                         Append(@, [name |-> name, ref |-> ref])]
       ELSE [h EXCEPT ![s].items[CHOOSE i \in hits : TRUE].ref = ref]

\* ConfigSection.is_section / is_option (the name is present)
is_section(h, s, name) == h[getitem(h, s, name)].kind = "section"
is_option(h, s, name) == h[getitem(h, s, name)].kind = "option"

\* Objects not yet allocated, and the one the next constructor call takes.
\* NoRef when the heap is exhausted (the constructor ends in MemoryError).
FreeIds(h) == {i \in 1 .. MaxObj : h[i].kind = "free"}
NewId(h) ==
    IF FreeIds(h) = {} THEN NoRef
    ELSE CHOOSE i \in FreeIds(h) : \A j \in FreeIds(h) : i <= j

\* ---------------------------------------------------------- semantic version
\* The compiled-in version (pyload.__about__.__version_info__) as text.
VERSION == "2.0.0"

\* Version texts a file may declare.
VersionStrings == {"2.0.1", "2.1.0", "1.0.0"}

\* semver.parse_version_info: <<major, minor, patch>>, ValueError otherwise
parse_version_info(text) ==
    CASE text = "2.0.0" -> [err |-> "none", info |-> <<2, 0, 0>>]
      [] text = "2.0.1" -> [err |-> "none", info |-> <<2, 0, 1>>]
      [] text = "2.1.0" -> [err |-> "none", info |-> <<2, 1, 0>>]
      [] text = "1.0.0" -> [err |-> "none", info |-> <<1, 0, 0>>]
      [] OTHER -> [err |-> "ValueError", info |-> <<>>]

\* ConfigParser._parse_version, the version_info half
parse_version(text) == parse_version_info(text)

\* self.version_info of the running program
version_info == parse_version(VERSION).info

\* ConfigParser._check_version; version is NoneV when the key is absent
check_version(version) ==
    IF version = NoneV \/ version.s = "" THEN "VersionMismatchError"
    ELSE LET parsed == parse_version(version.s)
         IN IF parsed.err # "none" THEN parsed.err
            ELSE IF SubSeq(parsed.info, 1, 2) # SubSeq(version_info, 1, 2)
                 THEN "VersionMismatchError"
                 ELSE "none"

\* -------------------------------------------------------------- file content
\* A file is a sequence of INI blocks, each a header and its `key = value`
\* lines in order; NoFile is a path with no file.  A header is kept as the
\* list of its separator-free parts (`net:proxy` is <<"net", "proxy">>), so
\* that joining names with the separator and splitting a header are what
\* they are on text.  A block headed JUNK is text that is no INI block.
DEFAULT_SECTION == "DEFAULT"
SELF_SECTION == ""
JUNK == <<"?">>
NoFile == << [name |-> <<"<absent>">>, items |-> <<>>] >>

Block(name, items) == [name |-> name, items |-> items]
Item(k, v) == [k |-> k, v |-> v]

\* Position of key k in a sequence of items, 0 if absent.
KeyIndex(items, k) ==
    LET hits == {i \in DOMAIN items : items[i].k = k}
    IN IF hits = {} THEN 0 ELSE CHOOSE i \in hits : TRUE

\* OrderedDict: d[k] = v (an existing key keeps its place)
DictSet(items, k, v) ==
    IF KeyIndex(items, k) = 0 THEN Append(items, Item(k, v))
    ELSE [items EXCEPT ![KeyIndex(items, k)].v = v]

\* Position of the block called name, 0 if absent.
BlockIndex(blocks, name) ==
    LET hits == {i \in DOMAIN blocks : blocks[i].name = name}
    IN IF hits = {} THEN 0 ELSE CHOOSE i \in hits : TRUE

\* ConfigParser._to_filevalue followed by read_dict's str(value); a text or
\* an integer is a scalar, no iterable to join
to_filevalue(value) ==
    IF value.k = "int" THEN StrV(IntToStr(value.n)) ELSE value

\* OrderedDict.update(config, fc): a block of the same name is replaced
RECURSIVE ConfigUpdate(_, _)
ConfigUpdate(config, fc) ==
    IF fc = <<>> THEN config
    ELSE LET b == Head(fc)
             i == BlockIndex(config, b.name)
         IN ConfigUpdate(IF i = 0 THEN Append(config, b)
                         ELSE [config EXCEPT ![i] = b], Tail(fc))

\* config.setdefault(section_name, OrderedDict())[name] = fv
ConfigSet(config, section_name, name, fv) ==
    LET i == BlockIndex(config, section_name)
    IN IF i = 0 THEN Append(config, Block(section_name, <<Item(name, fv)>>))
       ELSE [config EXCEPT ![i].items = DictSet(@, name, fv)]

\* ConfigParser._to_fileconfig: the loop over section.loweritems(), from
\* item i on, with the blocks collected so far
RECURSIVE to_fileconfig_loop(_, _, _, _, _)
to_fileconfig_loop(h, s, section_name, i, config) ==
    IF i > Len(h[s].items) THEN config
    ELSE LET name == Lower(h[s].items[i].name)
             item == h[s].items[i].ref
             sub_name == section_name \o Split(name)
         IN to_fileconfig_loop(h, s, section_name, i + 1,
              IF is_section(h, s, name)
              THEN ConfigUpdate(config,
                                to_fileconfig_loop(h, item, sub_name, 1, <<>>))
              ELSE ConfigSet(config, section_name, name,
                             to_filevalue(h[item].value)))

\* ConfigParser._to_fileconfig
to_fileconfig(h, s, section_name) ==
    to_fileconfig_loop(h, s, section_name, 1, <<>>)

\* ConfigParser._gen_fileconfig: the loop over self.loweritems()
RECURSIVE gen_fileconfig_loop(_, _, _)
gen_fileconfig_loop(h, i, config) ==
    IF i > Len(h[ROOT].items) THEN config
    ELSE LET name == Lower(h[ROOT].items[i].name)
             item == h[ROOT].items[i].ref
         IN gen_fileconfig_loop(h, i + 1,
              IF is_section(h, ROOT, name)
              THEN ConfigUpdate(config, to_fileconfig(h, item, Split(name)))
              ELSE ConfigSet(config, Split(SELF_SECTION), name,
                             to_filevalue(h[item].value)))

\* ConfigParser._gen_fileconfig
gen_fileconfig(h) ==
    gen_fileconfig_loop(h, 1, <<Block(Split(SELF_SECTION), <<>>)>>)

\* parser.read_dict(config) into self._new_parser({'version': self.version}):
\* the keys of the section called '' are set in the parser's defaults
RECURSIVE DictSetAll(_, _)
DictSetAll(items, more) ==
    IF more = <<>> THEN items
    ELSE DictSetAll(DictSet(items, Head(more).k, Head(more).v), Tail(more))

\* What parser.write emits for the tree: the [DEFAULT] block, then one block
\* per section of the config in order (the '' section has no keys left).
Serialization(h) ==
    LET config == gen_fileconfig(h)
        defaults == DictSetAll(<<Item("version", StrV(VERSION))>>,
                               config[1].items)
    IN <<Block(Split(DEFAULT_SECTION), defaults)>> \o
       [i \in 1 .. Len(config) |->
            IF config[i].name = Split(SELF_SECTION)
            THEN Block(Split(SELF_SECTION), <<>>)
            ELSE config[i]]

\* ------------------------------------------------------------------- state
VARIABLES
    runtime,     \* "py2" or "py3": the interpreter the package runs under
    phase,       \* "Created", "Ready" or "Closed"
    trace,       \* the phases the last construction went through
    disk,        \* [main, old]: the files at <path> and <path>.old
    fp,          \* self.fp: [open, pos, buf], buf is written but not flushed
    heap,        \* the objects; heap[ROOT] is the ConfigParser
    opens,       \* number of constructions so far
    last,        \* [op, name, err, stores, changed, ref]: the last call,
                 \* the name it was given, the exception it raised, the
                 \* number of store() invocations it made, whether it
                 \* changed an object, and the entry it returned
    cycles       \* per calling thread, the store() it is inside: [pc, name,
                 \* blocks], blocks being what parser.write has yet to write

vars == <<runtime, phase, trace, disk, fp, heap, opens, last, cycles>>

\* The threads that call into the store, and a thread outside store().
Callers == {"A", "B"}
Idle == [pc |-> "idle", name |-> "", blocks |-> <<>>]

\* io.open(path, mode='ab+') on a file with the given content: the handle is
\* positioned at the end of the file
io_open(content) == [open |-> TRUE, pos |-> Len(content), buf |-> <<>>]

\* fp.close(): the buffer reaches the file
ClosedFp == [open |-> FALSE, pos |-> 0, buf |-> <<>>]

\* The running call: the objects, the handle, the number of store() calls
\* made and the exception that ended it.
Machine(h, f, calls, err) ==
    [heap |-> h, fp |-> f, calls |-> calls, err |-> err]

\* fp.write(text) as parser.write does it, on the binary append handle:
\* Python 3 refuses text (TypeError, nothing written), Python 2 encodes it
\* and appends it to the handle's buffer.
fp_write(f, blocks) ==
    IF ~f.open THEN [err |-> "ValueError", fp |-> f]
    ELSE IF runtime = "py3" THEN [err |-> "TypeError", fp |-> f]
    ELSE [err |-> "none", fp |-> [f EXCEPT !.buf = @ \o blocks]]

\* ConfigParser.store
store(m) ==
    Bind(fp_write(m.fp, Serialization(m.heap)), LAMBDA w :
        Machine(m.heap, w.fp, m.calls + 1, w.err))

\* `if store: self.store()` at the end of a call
store_if(st, m) == IF st THEN store(m) ELSE m

\* ConfigOption.set without the test against the allowed values
ConfigOption_set_unchecked(m, o, value, st) ==
    LET norm == normalize_value(m.heap[o].type, value)
    IN IF norm.err # "none" THEN [m EXCEPT !.err = norm.err]
       ELSE IF m.heap[o].value = norm.v THEN m
       ELSE store_if(st, [m EXCEPT !.heap[o].value = norm.v])

\* ConfigOption.set without the return on an equal value
ConfigOption_set_always(m, o, value, st) ==
    LET norm == normalize_value(m.heap[o].type, value)
    IN IF norm.err # "none" THEN [m EXCEPT !.err = norm.err]
       ELSE IF m.heap[o].allowed # <<>> /\ norm.v \notin Range(m.heap[o].allowed)
            THEN [m EXCEPT !.err = "InvalidValueError"]
       ELSE store_if(st, [m EXCEPT !.heap[o].value = norm.v])

\* ConfigOption.set on option object o
ConfigOption_set(m, o, value, st) ==
    LET norm == normalize_value(m.heap[o].type, value)
    IN IF norm.err # "none" THEN [m EXCEPT !.err = norm.err]
       ELSE IF m.heap[o].allowed # <<>> /\ norm.v \notin Range(m.heap[o].allowed)
            THEN [m EXCEPT !.err = "InvalidValueError"]
       ELSE IF m.heap[o].value = norm.v THEN m
       ELSE store_if(st, [m EXCEPT !.heap[o].value = norm.v])

\* ConfigSection.set: item.set(arg, ...); a section's set wants two
\* positional arguments, so the call on a section is a TypeError
ConfigSection_set(m, s, name, arg, st) ==
    LET item == getitem(m.heap, s, name)
    IN IF item = NoRef THEN [m EXCEPT !.err = "KeyError"]
       ELSE IF m.heap[item].kind = "section" THEN [m EXCEPT !.err = "TypeError"]
       ELSE ConfigOption_set(m, item, arg, st)

\* What a call hands back: a value, or an entry object itself.
GotValue(v) == [err |-> "none", kind |-> "value", v |-> v, ref |-> NoRef]
GotObject(ref) == [err |-> "none", kind |-> "object", v |-> NoneV, ref |-> ref]
GotError(e) == [err |-> e, kind |-> "none", v |-> NoneV, ref |-> NoRef]

\* ConfigOption.get / ConfigSection.get called with the given further names:
\* an option takes none and a section at least one, else TypeError
RECURSIVE ConfigSection_get(_, _, _)
item_get(h, item, names) ==
    IF h[item].kind = "option"
    THEN IF names = <<>> THEN GotValue(h[item].value) ELSE GotError("TypeError")
    ELSE IF names = <<>> THEN GotError("TypeError")
    ELSE ConfigSection_get(h, item, names)

\* ConfigSection.get that hands back the entry without asking it
ConfigSection_get_item(h, s, names) ==
    IF getitem(h, s, Head(names)) = NoRef THEN GotError("KeyError")
    ELSE GotObject(getitem(h, s, Head(names)))

\* ConfigSection.get(name, *names), names being <<name>> \o names: the
\* entry's get(*names), the entry itself when that is a TypeError
ConfigSection_get(h, s, names) ==
    IF getitem(h, s, Head(names)) = NoRef THEN GotError("KeyError")
    ELSE Bind(item_get(h, getitem(h, s, Head(names)), Tail(names)),
              LAMBDA got :
           IF got.err = "TypeError"
           THEN GotObject(getitem(h, s, Head(names)))
           ELSE got)

\* An entry as update() takes it: (name, (tag, *constructor arguments)), or
\* (name, instance) with an entry object that exists.  Descriptions of
\* sections carry an empty config here.
OptionSpec(name, value, allowed, type) ==
    [name |-> name, tag |-> "option", value |-> value,
     allowed |-> allowed, type |-> type, ref |-> NoRef]
SectionSpec(name) ==
    [name |-> name, tag |-> "section", value |-> NoneV,
     allowed |-> <<>>, type |-> "", ref |-> NoRef]
InstanceSpec(name, ref) ==
    [name |-> name, tag |-> "instance", value |-> NoneV,
     allowed |-> <<>>, type |-> "", ref |-> ref]

\* ConfigSection._to_configentry for a description
to_configentry(spec) ==
    IF spec.tag = "section" THEN [err |-> "none", obj |-> EmptySection]
    ELSE ConfigOption(spec.value, spec.allowed, spec.type)

\* The list comprehension of ConfigSection.update: every entry is built
\* (first failure raises) before any is inserted.  _to_configentry hands an
\* entry object back as it is: no object is made for it.
RECURSIVE update_build(_, _, _)
update_build(h, iterable, built) ==
    IF iterable = <<>> THEN [err |-> "none", heap |-> h, built |-> built]
    ELSE IF Head(iterable).tag = "instance"
    THEN update_build(h, Tail(iterable),
                      Append(built, [name |-> Head(iterable).name,
                                     ref |-> Head(iterable).ref]))
    ELSE Bind(to_configentry(Head(iterable)), LAMBDA e :
           IF e.err # "none" THEN [err |-> e.err, heap |-> h, built |-> built]
           ELSE IF NewId(h) = NoRef
           THEN [err |-> "MemoryError", heap |-> h, built |-> built]
           ELSE update_build([h EXCEPT ![NewId(h)] = e.obj], Tail(iterable),
                             Append(built, [name |-> Head(iterable).name,
                                            ref |-> NewId(h)])))

\* InscDict.update(self, config)
RECURSIVE update_insert(_, _, _)
update_insert(h, s, built) ==
    IF built = <<>> THEN h
    ELSE update_insert(setitem(h, s, Head(built).name, Head(built).ref),
                       s, Tail(built))

\* ConfigSection.update; on an exception the section is as before
update(h, s, iterable) ==
    Bind(update_build(h, iterable, <<>>), LAMBDA b :
        IF b.err # "none" THEN [err |-> b.err, heap |-> h]
        ELSE [err |-> "none", heap |-> update_insert(b.heap, s, b.built)])

\* add_option without the test for a name that exists
add_option_nodup(m, s, name, value, allowed_values, input_type, st) ==
    Bind(ConfigOption(value, allowed_values, input_type), LAMBDA option :
        IF option.err # "none" THEN [m EXCEPT !.err = option.err]
        ELSE IF NewId(m.heap) = NoRef THEN [m EXCEPT !.err = "MemoryError"]
        ELSE store_if(st, [m EXCEPT !.heap =
                             setitem([m.heap EXCEPT ![NewId(m.heap)] = option.obj],
                                     s, name, NewId(m.heap))]))

\* add_option that inserts the option before it tests the name
add_option_late(m, s, name, value, allowed_values, input_type, st) ==
    Bind(ConfigOption(value, allowed_values, input_type), LAMBDA option :
        IF option.err # "none" THEN [m EXCEPT !.err = option.err]
        ELSE IF NewId(m.heap) = NoRef THEN [m EXCEPT !.err = "MemoryError"]
        ELSE IF Lower(name) \in lowerkeys(m.heap, s)
        THEN [m EXCEPT !.err = "AlreadyExistsKeyError",
                       !.heap = setitem([m.heap EXCEPT ![NewId(m.heap)] =
                                            option.obj], s, name, NewId(m.heap))]
        ELSE store_if(st, [m EXCEPT !.heap =
                             setitem([m.heap EXCEPT ![NewId(m.heap)] = option.obj],
                                     s, name, NewId(m.heap))]))

\* ConfigSection.add_option
add_option(m, s, name, value, allowed_values, input_type, st) ==
    IF Lower(name) \in lowerkeys(m.heap, s)
    THEN [m EXCEPT !.err = "AlreadyExistsKeyError"]
    ELSE Bind(ConfigOption(value, allowed_values, input_type), LAMBDA option :
           IF option.err # "none" THEN [m EXCEPT !.err = option.err]
           ELSE IF NewId(m.heap) = NoRef THEN [m EXCEPT !.err = "MemoryError"]
           ELSE store_if(st, [m EXCEPT !.heap =
                                setitem([m.heap EXCEPT ![NewId(m.heap)] = option.obj],
                                        s, name, NewId(m.heap))]))

\* add_section with add_option's default: store() unless store=False
ConfigSection_add_section_always(m, s, name, config, st) ==
    IF HasSeparator(name) THEN [m EXCEPT !.err = "InvalidValueError"]
    ELSE IF Lower(name) \in lowerkeys(m.heap, s)
    THEN [m EXCEPT !.err = "AlreadyExistsKeyError"]
    ELSE IF NewId(m.heap) = NoRef THEN [m EXCEPT !.err = "MemoryError"]
    ELSE Bind(update([m.heap EXCEPT ![NewId(m.heap)] = EmptySection],
                     NewId(m.heap), config), LAMBDA section :
           IF section.err # "none" THEN [m EXCEPT !.err = section.err]
           ELSE store_if(st # "false",
                         [m EXCEPT !.heap = setitem(section.heap, s, name,
                                                    NewId(m.heap))]))

\* add_section without the test for the separator
ConfigSection_add_section_nosep(m, s, name, config, st) ==
    IF Lower(name) \in lowerkeys(m.heap, s)
    THEN [m EXCEPT !.err = "AlreadyExistsKeyError"]
    ELSE IF NewId(m.heap) = NoRef THEN [m EXCEPT !.err = "MemoryError"]
    ELSE Bind(update([m.heap EXCEPT ![NewId(m.heap)] = EmptySection],
                     NewId(m.heap), config), LAMBDA section :
           IF section.err # "none" THEN [m EXCEPT !.err = section.err]
           ELSE store_if(st = "true" \/ (st = "none" /\ config # <<>>),
                         [m EXCEPT !.heap = setitem(section.heap, s, name,
                                                    NewId(m.heap))]))

\* ConfigSection.add_section; st is "none" (store=None), "true" or "false"
ConfigSection_add_section(m, s, name, config, st) ==
    IF HasSeparator(name) THEN [m EXCEPT !.err = "InvalidValueError"]
    ELSE IF Lower(name) \in lowerkeys(m.heap, s)
    THEN [m EXCEPT !.err = "AlreadyExistsKeyError"]
    ELSE IF NewId(m.heap) = NoRef THEN [m EXCEPT !.err = "MemoryError"]
    ELSE Bind(update([m.heap EXCEPT ![NewId(m.heap)] = EmptySection],
                     NewId(m.heap), config), LAMBDA section :
           IF section.err # "none" THEN [m EXCEPT !.err = section.err]
           ELSE store_if(st = "true" \/ (st = "none" /\ config # <<>>),
                         [m EXCEPT !.heap = setitem(section.heap, s, name,
                                                    NewId(m.heap))]))

\* ConfigParser.add_section: the root refuses the names of the default
\* section and of itself
ConfigParser_add_section(m, name, config, st) ==
    IF Lower(name) \in {Lower(DEFAULT_SECTION), Lower(SELF_SECTION)}
    THEN [m EXCEPT !.err = "InvalidValueError"]
    ELSE ConfigSection_add_section(m, ROOT, name, config, st)

\* section.add_section(...) dispatched on the class of the receiver
add_section(m, s, name, config, st) ==
    IF s = ROOT THEN ConfigParser_add_section(m, name, config, st)
    ELSE ConfigSection_add_section(m, s, name, config, st)

\* ConfigOption.reset / ConfigSection.reset, cascading below object s
RECURSIVE reset(_, _)
RECURSIVE reset_loop(_, _, _)
reset_loop(h, s, i) ==
    IF i > Len(h[s].items) THEN h
    ELSE reset_loop(reset(h, h[s].items[i].ref), s, i + 1)
\* reset that goes no further than the entry it is called on
reset_entry(h, s) ==
    IF h[s].kind = "option" THEN [h EXCEPT ![s].value = h[s].default]
    ELSE h

reset(h, s) ==
    IF h[s].kind = "option" THEN [h EXCEPT ![s].value = h[s].default]
    ELSE reset_loop(h, s, 1)

\* --------------------------------------------------------------------- load
\* What parser.read_file makes of the blocks it is handed (strict mode):
\* [err, defaults, sections].  cur is the block the lines go to: 0 before
\* any header, -1 for the defaults, else an index into sections.  A `[]`
\* line is no header: it is taken as a key without value.
RECURSIVE read_loop(_, _, _, _)
read_loop(blocks, cur, defaults, sections) ==
    IF blocks = <<>>
    THEN [err |-> "none", defaults |-> defaults, sections |-> sections]
    ELSE LET b == Head(blocks)
             fail(e) == [err |-> e, defaults |-> defaults, sections |-> sections]
             extra == IF b.name = Split(SELF_SECTION)
                      THEN <<Item("[]", NoneV)>> \o b.items ELSE b.items
             target == IF b.name = Split(SELF_SECTION) THEN cur
                       ELSE IF b.name = Split(DEFAULT_SECTION) THEN 0 - 1
                       ELSE Len(sections) + 1
             old == IF target = 0 - 1 THEN defaults
                    ELSE IF target > Len(sections) THEN <<>>
                    ELSE sections[target].items
             clash == \E i \in DOMAIN extra : KeyIndex(old, extra[i].k) # 0
         IN IF b.name = JUNK THEN fail("ParsingError")
            ELSE IF target = 0 THEN fail("MissingSectionHeaderError")
            ELSE IF target > Len(sections) /\ BlockIndex(sections, b.name) # 0
            THEN fail("DuplicateSectionError")
            ELSE IF clash THEN fail("DuplicateOptionError")
            ELSE IF target = 0 - 1
            THEN read_loop(Tail(blocks), target, defaults \o extra, sections)
            ELSE IF target > Len(sections)
            THEN read_loop(Tail(blocks), target, defaults,
                           Append(sections, Block(b.name, extra)))
            ELSE read_loop(Tail(blocks), target, defaults,
                           [sections EXCEPT ![target].items = @ \o extra])

\* parser.read_file(self.fp): the lines from the handle's position to the
\* end of the file.  The handle is binary: Python 3's parser fails on the
\* first line it is handed (TypeError), Python 2's reads it as text.
read_file(f, content) ==
    LET lines == SubSeq(content, f.pos + 1, Len(content))
    IN IF lines # <<>> /\ runtime = "py3"
       THEN [err |-> "TypeError", defaults |-> <<>>, sections |-> <<>>]
       ELSE read_loop(lines, 0, <<>>, <<>>)

\* parser.get(DEFAULT_SECTION, 'version', fallback=None)
parser_get_version(parsed) ==
    IF KeyIndex(parsed.defaults, "version") = 0 THEN NoneV
    ELSE parsed.defaults[KeyIndex(parsed.defaults, "version")].v

\* parser[section_id].items(): the section's keys, then the defaults it
\* does not override
RECURSIVE without_keys(_, _)
without_keys(items, own) ==
    IF items = <<>> THEN <<>>
    ELSE IF KeyIndex(own, Head(items).k) # 0 THEN without_keys(Tail(items), own)
    ELSE <<Head(items)>> \o without_keys(Tail(items), own)
section_items(parsed, i) ==
    parsed.sections[i].items \o
    without_keys(parsed.defaults, parsed.sections[i].items)

\* ConfigSection.get_section: [err, ref]
get_section(h, s, name) ==
    IF getitem(h, s, name) = NoRef THEN [err |-> "KeyError", ref |-> NoRef]
    ELSE IF ~is_section(h, s, name)
    THEN [err |-> "InvalidValueError", ref |-> NoRef]
    ELSE [err |-> "none", ref |-> getitem(h, s, name)]

\* get_option that hands back the entry whatever it is
get_option_any(h, s, name) ==
    IF getitem(h, s, name) = NoRef THEN [err |-> "KeyError", ref |-> NoRef]
    ELSE [err |-> "none", ref |-> getitem(h, s, name)]

\* ConfigSection.get_option: [err, ref]
get_option(h, s, name) ==
    IF getitem(h, s, name) = NoRef THEN [err |-> "KeyError", ref |-> NoRef]
    ELSE IF is_section(h, s, name)
    THEN [err |-> "InvalidValueError", ref |-> NoRef]
    ELSE [err |-> "none", ref |-> getitem(h, s, name)]

\* ConfigParser._make_sections: [m, ref]; create is TRUE once a name was
\* missing and the rest of the path is being added
RECURSIVE make_sections_loop(_, _, _, _)
make_sections_loop(m, section, names, create) ==
    IF names = <<>> THEN [m |-> m, ref |-> section]
    ELSE LET found == get_section(m.heap, section, Head(names))
         IN IF ~create /\ found.err = "none"
            THEN make_sections_loop(m, found.ref, Tail(names), FALSE)
            ELSE IF ~create /\ found.err # "KeyError"
            THEN [m |-> [m EXCEPT !.err = found.err], ref |-> NoRef]
            ELSE Bind(add_section(m, section, Head(names), <<>>, "false"),
                      LAMBDA a :
                   IF a.err # "none" THEN [m |-> a, ref |-> NoRef]
                   ELSE make_sections_loop(a, getitem(a.heap, section,
                                                      Head(names)),
                                           Tail(names), TRUE))
make_sections(m, section_id) == make_sections_loop(m, ROOT, section_id, FALSE)

\* ConfigParser._make_options: set with the default store=True, add_option
\* without store when the key is unknown; the first other exception ends it
RECURSIVE make_options(_, _, _)
make_options(m, section, section_config) ==
    IF section_config = <<>> THEN m
    ELSE LET it == Head(section_config)
         IN Bind(ConfigSection_set(m, section, it.k, it.v, TRUE), LAMBDA r :
            Bind(IF r.err = "KeyError"
                 THEN add_option(m, section, it.k, it.v, <<>>, "", FALSE)
                 ELSE r, LAMBDA r2 :
                IF r2.err # "none" THEN r2
                ELSE make_options(r2, section, Tail(section_config))))

\* The loop of ConfigParser.retrieve over parser.sections()
RECURSIVE retrieve_loop(_, _, _)
retrieve_loop(m, parsed, i) ==
    IF i > Len(parsed.sections) THEN m
    ELSE Bind(make_sections(m, parsed.sections[i].name), LAMBDA sec :
           IF sec.m.err # "none" THEN sec.m
           ELSE Bind(make_options(sec.m, sec.ref, section_items(parsed, i)),
                     LAMBDA o :
                  IF o.err # "none" THEN o
                  ELSE retrieve_loop(o, parsed, i + 1)))

\* ConfigParser.retrieve.  parser.pop(SELF_SECTION, {}) finds no section of
\* that name (`[]` is no header), so the root gets no options of its own.
retrieve(m, content) ==
    LET f == [m.fp EXCEPT !.pos = Len(content)]
    IN Bind(read_file(m.fp, content), LAMBDA parsed :
       Bind(check_version(parser_get_version(parsed)), LAMBDA checked :
           IF parsed.err # "none" THEN [m EXCEPT !.err = parsed.err, !.fp = f]
           ELSE IF checked # "none" THEN [m EXCEPT !.err = checked, !.fp = f]
           ELSE retrieve_loop([m EXCEPT !.fp = f], parsed, 1)))

\* ------------------------------------------------------------ initial state
\* Files the program may find at <path> when it starts; at <path>.old it
\* finds no file or one that an earlier recovery left there.
FileOfVersion(v) ==
    << Block(Split(DEFAULT_SECTION), <<Item("version", StrV(v))>>),
       Block(<<"net">>, <<Item("mode", StrV("turbo"))>>) >>
FileWithoutVersion == << Block(<<"net">>, <<Item("mode", StrV("turbo"))>>) >>
CorruptFile == << Block(JUNK, <<>>) >>
EmptyFile == <<>>
InitialFiles ==
    {NoFile, EmptyFile, FileWithoutVersion, CorruptFile} \cup
    {FileOfVersion(v) : v \in VersionStrings}

\* The config the caller hands to the constructor (the seeded defaults).
Seeds ==
    { <<>>,
      << OptionSpec("mode", StrV("fast"), <<StrV("fast")>>, "") >>,
      << OptionSpec("mode", StrV("7"), <<>>, "Int") >> }

\* (value, allowed_values, input_type) offered to add_option; "" is
\* input_type=None.  The third has a value outside its allowed values, the
\* last a value that is no integer.
OptionArgs ==
    { <<StrV("fast"), <<>>, "">>,
      <<StrV("fast"), <<StrV("fast")>>, "">>,
      <<StrV("30"), <<StrV("fast")>>, "">>,
      <<StrV("30"), <<>>, "Int">>,
      <<StrV("fast"), <<>>, "Int">> }

NoHeap == [i \in ObjIds |-> FreeObj]

Init ==
    /\ runtime \in {"py2", "py3"}
    /\ phase = "Created"
    /\ trace = <<"Created">>
    /\ disk \in [main : InitialFiles, old : {NoFile, FileWithoutVersion}]
    /\ fp = ClosedFp
    /\ heap = NoHeap
    /\ opens = 0
    /\ last = [op |-> "none", name |-> "", err |-> "none", stores |-> 0,
               changed |-> FALSE, ref |-> NoRef]
    /\ cycles = [c \in Callers |-> Idle]

\* ------------------------------------------------------------------ actions
Sections == {i \in ObjIds : heap[i].kind = "section"}
Allocated == {i \in ObjIds : heap[i].kind # "free"}

\* The running call on the current state.
Now == Machine(heap, fp, 0, "none")

\* Serializations in the file and in the handle's buffer; calls that may
\* store are offered while there are fewer than MaxStores of them.
Dumps(content) ==
    Cardinality({i \in DOMAIN content :
                    content[i].name = Split(DEFAULT_SECTION)})
CanStore ==
    Dumps(IF disk.main = NoFile THEN <<>> ELSE disk.main) + Dumps(fp.buf)
        < MaxStores

\* The effect of a finished call on the program's variables.
Return(op, name, m) ==
    /\ heap' = m.heap
    /\ fp' = m.fp
    /\ last' = [op |-> op, name |-> name, err |-> m.err, stores |-> m.calls,
                changed |-> m.heap # heap, ref |-> NoRef]
    /\ UNCHANGED cycles

\* _retrieve_fileconfig whose handler leaves the file where it is
retrieve_fileconfig_norename(m, main0, old0) ==
    Bind(retrieve(m, main0), LAMBDA r :
        IF r.err = "VersionMismatchError"
        THEN [m |-> Machine(r.heap, io_open(main0 \o r.fp.buf), r.calls, "none"),
              main |-> main0 \o r.fp.buf, old |-> old0,
              trace |-> <<"Created", "Loading", "Recovering", "Ready">>]
        ELSE [m |-> [r EXCEPT !.err = "none"],
              main |-> main0, old |-> old0,
              trace |-> <<"Created", "Loading", "Ready">>])

\* _retrieve_fileconfig without the handler for VersionMismatchError
retrieve_fileconfig_raise(m, main0, old0) ==
    Bind(retrieve(m, main0), LAMBDA r :
        IF r.err = "VersionMismatchError"
        THEN [m |-> r, main |-> main0, old |-> old0,
              trace |-> <<"Created", "Loading">>]
        ELSE [m |-> [r EXCEPT !.err = "none"],
              main |-> main0, old |-> old0,
              trace |-> <<"Created", "Loading", "Ready">>])

\* ConfigParser._retrieve_fileconfig on the file content main0, with old0
\* at <path>.old: [m, main, old, trace].  On VersionMismatchError the handle
\* is closed (which flushes it), the file is renamed to <path>.old (taking
\* the place of a file of that name) and a new file is opened; any other
\* exception is logged.  Nothing is raised.
retrieve_fileconfig(m, main0, old0) ==
    Bind(retrieve(m, main0), LAMBDA r :
        IF r.err = "VersionMismatchError"
        THEN [m |-> Machine(r.heap, io_open(<<>>), r.calls, "none"),
              main |-> <<>>, old |-> main0 \o r.fp.buf,
              trace |-> <<"Created", "Loading", "Recovering", "Ready">>]
        ELSE [m |-> [r EXCEPT !.err = "none"],
              main |-> main0, old |-> old0,
              trace |-> <<"Created", "Loading", "Ready">>])

\* ConfigParser.__init__ on the file content main0, with old0 at <path>.old:
\* open the file in append mode (creating it), seed the root with the
\* caller's config, load the file.  [m, main, old, phase, trace]; an
\* exception leaves no object.
ConfigParser_init(seed, main0, old0) ==
    Bind(update([NoHeap EXCEPT ![ROOT] = EmptySection], ROOT, seed),
         LAMBDA seeded :
        IF seeded.err # "none"
        THEN [m |-> Machine(NoHeap, ClosedFp, 0, seeded.err),
              main |-> main0, old |-> old0,
              phase |-> "Created", trace |-> <<"Created">>]
        ELSE Bind(retrieve_fileconfig(
                      Machine(seeded.heap, io_open(main0), 0, "none"),
                      main0, old0), LAMBDA c :
               IF c.m.err # "none"
               THEN [m |-> Machine(NoHeap, ClosedFp, c.m.calls, c.m.err),
                     main |-> c.main, old |-> c.old,
                     phase |-> "Created", trace |-> c.trace]
               ELSE [m |-> c.m, main |-> c.main, old |-> c.old,
                     phase |-> "Ready", trace |-> c.trace]))

\* ConfigParser(path, config=seed)
Construct(seed) ==
    /\ phase \in {"Created", "Closed"}
    /\ opens < MaxOpens
    /\ \E c \in {ConfigParser_init(
                     seed, IF disk.main = NoFile THEN <<>> ELSE disk.main,
                     disk.old)} :
          /\ disk' = [main |-> c.main, old |-> c.old]
          /\ Return("construct", "", c.m)
          /\ phase' = c.phase
          /\ trace' = c.trace
    /\ opens' = opens + 1
    /\ UNCHANGED runtime

\* section.add_option(name, value, allowed_values=..., input_type=..., store=st)
AddOption(s, name, value, allowed, type, st) ==
    /\ phase = "Ready"
    /\ FreeIds(heap) # {}
    /\ st => CanStore
    /\ Return("add_option", name, add_option(Now, s, name, value, allowed, type, st))
    /\ UNCHANGED <<runtime, phase, trace, disk, opens>>

\* section.add_section(name, config, store=st)
AddSection(s, name, config, st) ==
    /\ phase = "Ready"
    /\ Cardinality(FreeIds(heap)) > Len(config)
    /\ st # "false" => CanStore
    /\ Return("add_section", name, add_section(Now, s, name, config, st))
    /\ UNCHANGED <<runtime, phase, trace, disk, opens>>

\* section.set(name, raw, store=st)
SetOption(s, name, raw, st) ==
    /\ phase = "Ready"
    /\ st => CanStore
    /\ Return("set", name, ConfigSection_set(Now, s, name, raw, st))
    /\ UNCHANGED <<runtime, phase, trace, disk, opens>>

\* entry.reset() on an option or a section
Reset(s) ==
    /\ phase = "Ready"
    /\ heap' = reset(heap, s)
    /\ last' = [op |-> "reset", name |-> "", err |-> "none", stores |-> 0,
                changed |-> heap' # heap, ref |-> s]
    /\ UNCHANGED <<runtime, phase, trace, disk, fp, opens, cycles>>

\* parser.store() called by the user
Store ==
    /\ phase = "Ready"
    /\ CanStore
    /\ Return("store", "", store(Now))
    /\ UNCHANGED <<runtime, phase, trace, disk, opens>>

\* ConfigParser.close: a last store(), then the handle is closed whatever
\* store() did, which flushes what was written
Close ==
    /\ phase = "Ready"
    /\ \E m \in {store(Now)} :
          /\ disk' = [disk EXCEPT !.main = @ \o m.fp.buf]
          /\ Return("close", "", [m EXCEPT !.fp = ClosedFp])
    /\ phase' = "Closed"
    /\ UNCHANGED <<runtime, trace, opens>>

\* The configs offered to add_section
Configs == { <<>>, << OptionSpec("mode", StrV("fast"), <<>>, "") >> }

\* One life of a store on a path with no file: every call, on every
\* section, with every kind of value.
PlainNames == {"mode", "a:b"}
Next ==
    \/ \E seed \in Seeds : phase = "Created" /\ Construct(seed)
    \/ \E s \in Sections, name \in PlainNames, a \in OptionArgs, st \in BOOLEAN :
          AddOption(s, name, a[1], a[2], a[3], st)
    \/ \E s \in Sections, name \in PlainNames, config \in Configs,
          st \in {"none", "true", "false"} : AddSection(s, name, config, st)
    \/ \E s \in Sections, name \in PlainNames, raw \in RawValues, st \in BOOLEAN :
          SetOption(s, name, raw, st)
    \/ \E s \in Allocated : Reset(s)
    \/ Store
    \/ Close

InitNew == Init /\ disk.main = NoFile /\ disk.old = NoFile

Spec == InitNew /\ [][Next]_vars

\* Successive lives of a store on one path, from every initial file: the
\* store is constructed, its root options are added and set, it is stored,
\* closed and constructed again.
LifeNames == {"mode"}
NextLife ==
    \/ \E seed \in Seeds : Construct(seed)
    \/ \E name \in LifeNames, a \in OptionArgs, st \in BOOLEAN :
          AddOption(ROOT, name, a[1], a[2], a[3], st)
    \/ \E name \in LifeNames, raw \in RawValues, st \in BOOLEAN :
          SetOption(ROOT, name, raw, st)
    \/ Store
    \/ Close

SpecLife == Init /\ [][NextLife]_vars

\* One life of a store whose entries are added under every name of the
\* model, in every section.
NameArgs == { <<StrV("fast"), <<>>, "">> }
NextNames ==
    \/ phase = "Created" /\ Construct(<<>>)
    \/ \E s \in Sections, name \in Names, a \in NameArgs, st \in BOOLEAN :
          AddOption(s, name, a[1], a[2], a[3], st)
    \/ \E s \in Sections, name \in Names, config \in Configs,
          st \in {"none", "true", "false"} : AddSection(s, name, config, st)

SpecNames == InitNew /\ [][NextNames]_vars

\* ------------------------------------------------------------------- claims
\* What the handle's file holds, written-but-unflushed text included.
FileContent == (IF disk.main = NoFile THEN <<>> ELSE disk.main) \o fp.buf

\* The options below section s: [path, type, value], path in lower case.
RECURSIVE OptionsBelow(_, _, _)
OptionsBelow(h, s, prefix) ==
    UNION { LET it == h[s].items[i]
                path == prefix \o <<Lower(it.name)>>
            IN IF h[it.ref].kind = "option"
               THEN {[path |-> path, type |-> h[it.ref].type,
                      value |-> h[it.ref].value]}
               ELSE OptionsBelow(h, it.ref, path)
            : i \in DOMAIN h[s].items }
Options(h) == OptionsBelow(h, ROOT, <<>>)

\* C1: after a call that invoked store(), the backing file holds exactly one
\* serialization of the current tree and nothing else.
C1_StoreRewritesFile ==
    (phase \in {"Ready", "Closed"} /\ last.stores > 0) =>
        FileContent = Serialization(heap)

\* C2: a store that is closed (which stores it) and constructed again on
\* the same path, with every option of the closed store seeded with its
\* type, has every option again with the value it had when it was stored.
C2_RoundTrip ==
    [][ ( /\ phase = "Closed" /\ phase' = "Ready"
          /\ \A a \in Options(heap) :
                \E b \in Options(heap') : b.path = a.path /\ b.type = a.type )
        => \A a \in Options(heap) :
              \E b \in Options(heap') : b.path = a.path /\ b.value = a.value
      ]_vars

\* The option called name in section s has allowed values and raw
\* normalizes to a value that is none of them.
OutsideAllowed(h, s, name, raw) ==
    /\ getitem(h, s, name) # NoRef
    /\ is_option(h, s, name)
    /\ LET o == h[getitem(h, s, name)]
       IN /\ o.allowed # <<>>
          /\ normalize_value(o.type, raw).err = "none"
          /\ normalize_value(o.type, raw).v \notin Range(o.allowed)

\* C3: a set() whose normalized value is outside the option's non-empty
\* allowed values raises InvalidValueError, changes no value and does not
\* call store().
C3_RejectedSetLeavesValue ==
    [][ last'.op = "set" =>
        \A s \in Sections, raw \in RawValues, st \in BOOLEAN :
          (OutsideAllowed(heap, s, last'.name, raw)
             /\ SetOption(s, last'.name, raw, st))
          => /\ last'.err = "InvalidValueError"
             /\ heap' = heap
             /\ last'.stores = 0
             /\ fp' = fp
      ]_vars

\* A set() was rejected for a value outside the allowed values.
C3_Witness ==
    /\ last.op = "set" /\ last.err = "InvalidValueError"
    /\ ~last.changed /\ last.stores = 0
    /\ \E s \in Sections, raw \in RawValues :
          OutsideAllowed(heap, s, last.name, raw)

\* The option called name in section s holds what raw normalizes to.
EqualsCurrent(h, s, name, raw) ==
    /\ getitem(h, s, name) # NoRef
    /\ is_option(h, s, name)
    /\ LET o == h[getitem(h, s, name)]
       IN /\ normalize_value(o.type, raw).err = "none"
          /\ normalize_value(o.type, raw).v = o.value

\* C4: a set() whose normalized value equals the option's value changes
\* nothing and does not call store(), with store=True and with store=False.
C4_SetSameValueIsNoOp ==
    [][ last'.op = "set" =>
        \A s \in Sections, raw \in RawValues, st \in BOOLEAN :
          (EqualsCurrent(heap, s, last'.name, raw)
             /\ SetOption(s, last'.name, raw, st))
          => /\ heap' = heap
             /\ last'.stores = 0
             /\ fp' = fp
             /\ disk' = disk
      ]_vars

\* A set() with store=True returned without a change and without store().
C4_Witness ==
    /\ last.op = "set" /\ last.err = "none"
    /\ ~last.changed /\ last.stores = 0
    /\ \E s \in Sections, raw \in RawValues :
          EqualsCurrent(heap, s, last.name, raw)

\* The version a file declares in its [DEFAULT] block, NoneV if none.
Declared(content) ==
    LET i == BlockIndex(content, Split(DEFAULT_SECTION))
    IN IF i = 0 \/ KeyIndex(content[i].items, "version") = 0 THEN NoneV
       ELSE content[i].items[KeyIndex(content[i].items, "version")].v

\* The file is INI text.
WellFormed(content) == content # NoFile /\ BlockIndex(content, JUNK) = 0

\* The file declares a version of the running program's major and minor.
SameMajorMinor(content) ==
    /\ WellFormed(content)
    /\ Declared(content) # NoneV
    /\ parse_version_info(Declared(content).s).err = "none"
    /\ SubSeq(parse_version_info(Declared(content).s).info, 1, 2)
          = SubSeq(version_info, 1, 2)

\* The file declares a version of another major or minor.
DiffersInMajorMinor(content) ==
    /\ WellFormed(content)
    /\ Declared(content) # NoneV
    /\ parse_version_info(Declared(content).s).err = "none"
    /\ SubSeq(parse_version_info(Declared(content).s).info, 1, 2)
          # SubSeq(version_info, 1, 2)

\* The root as the constructor seeds it from the caller's config.
SeededHeap(seed) == update([NoHeap EXCEPT ![ROOT] = EmptySection], ROOT, seed).heap

\* Every key of every named block of the file is an option of that path
\* holding the file's value.
FileKeysApplied(content, h) ==
    \A i \in DOMAIN content :
        content[i].name \notin {Split(DEFAULT_SECTION), Split(SELF_SECTION)} =>
            \A j \in DOMAIN content[i].items :
                \E o \in Options(h) :
                    /\ o.path = content[i].name \o <<content[i].items[j].k>>
                    /\ to_filevalue(o.value) = content[i].items[j].v

\* C5: constructing a store on a file that declares another major or minor
\* leaves the file's content at <path>.old, an empty file at <path> that is
\* the store's open handle, and a tree of the seeded entries alone.
C5_MismatchRecovery ==
    [][ last'.op = "construct" =>
        \A seed \in Seeds :
          (DiffersInMajorMinor(disk.main) /\ Construct(seed))
          => /\ disk'.old = disk.main
             /\ disk'.main = <<>>
             /\ fp' = io_open(<<>>)
             /\ phase' = "Ready"
             /\ heap' = SeededHeap(seed)
      ]_vars

\* A store was constructed on a file of another major or minor, with a seed.
C5_Witness ==
    /\ last.op = "construct" /\ phase = "Ready"
    /\ DiffersInMajorMinor(disk.old)
    /\ disk.main = <<>> /\ fp.open
    /\ heap[ROOT].items # <<>>

\* C6: construction on a file that declares the program's major and minor
\* (any patch) does not recover: nothing is renamed and the file's keys are
\* applied; on a file with no version key or another major or minor it
\* recovers.
C6_RecoveryByMajorMinor ==
    [][ last'.op = "construct" =>
        \A seed \in Seeds :
          Construct(seed) =>
            LET main0 == IF disk.main = NoFile THEN <<>> ELSE disk.main
                recovered == \E i \in DOMAIN trace' : trace'[i] = "Recovering"
            IN /\ SameMajorMinor(main0) =>
                    /\ ~recovered
                    /\ disk'.old = disk.old
                    /\ FileKeysApplied(main0, heap')
               /\ (WellFormed(main0) /\ ~SameMajorMinor(main0)) => recovered
      ]_vars

\* C7: a construction raises nothing, whatever the file: it goes from
\* Created through Loading, through Recovering too when the file declares
\* another major or minor, to Ready, with an open handle on the file at the
\* path.
C7_ConstructionNeverRaises ==
    [][ last'.op = "construct" =>
          /\ last'.err = "none"
          /\ phase' = "Ready"
          /\ fp'.open /\ fp'.pos = Len(disk'.main)
          /\ disk'.main # NoFile
          /\ trace' \in { <<"Created", "Loading", "Ready">>,
                          <<"Created", "Loading", "Recovering", "Ready">> }
          /\ DiffersInMajorMinor(disk.main) =>
                trace' = <<"Created", "Loading", "Recovering", "Ready">>
      ]_vars

\* A store was constructed on a file that is no INI text.
C7_Witness ==
    /\ last.op = "construct" /\ last.err = "none"
    /\ phase = "Ready" /\ fp.open
    /\ disk.old = CorruptFile

\* C8: an option with allowed values holds one of them.
C8_ValueInAllowed ==
    \A o \in Allocated :
        (heap[o].kind = "option" /\ heap[o].allowed # <<>>) =>
            heap[o].value \in Range(heap[o].allowed)

\* Section s has an entry whose name differs from name in case only.
CaseClash(h, s, name) ==
    \E i \in DOMAIN h[s].items :
        /\ h[s].items[i].name # name
        /\ Lower(h[s].items[i].name) = Lower(name)

\* The step is an add_option or an add_section on section s under name.
AddCallOn(s, name) ==
    \/ \E a \in OptionArgs, st \in BOOLEAN :
          AddOption(s, name, a[1], a[2], a[3], st)
    \/ \E config \in Configs, st \in {"none", "true", "false"} :
          AddSection(s, name, config, st)

\* add_section refuses the name before it looks for a duplicate.
RefusedName(op, s, name) ==
    /\ op = "add_section"
    /\ \/ HasSeparator(name)
       \/ s = ROOT /\ Lower(name) \in {Lower(DEFAULT_SECTION), Lower(SELF_SECTION)}

\* C9 (as stated): adding, by add_option or add_section, a name that differs
\* only in case from a name of the section raises AlreadyExistsKeyError and
\* leaves the first entry in place.
C9_CaseInsensitiveUnique ==
    [][ last'.op \in {"add_option", "add_section"} =>
        \A s \in Sections :
          (CaseClash(heap, s, last'.name) /\ AddCallOn(s, last'.name))
          => /\ last'.err = "AlreadyExistsKeyError"
             /\ heap' = heap
      ]_vars

\* C9 (amended): adding a name that differs only in case from a name of the
\* section raises and leaves the section as it was, without a store(); the
\* exception is AlreadyExistsKeyError, except that add_section raises
\* InvalidValueError for a name with the separator and, on the root, for the
\* names of the default section and of the root itself.
C9_CaseInsensitiveRejected ==
    [][ last'.op \in {"add_option", "add_section"} =>
        \A s \in Sections :
          (CaseClash(heap, s, last'.name) /\ AddCallOn(s, last'.name))
          => /\ last'.err = IF RefusedName(last'.op, s, last'.name)
                            THEN "InvalidValueError"
                            ELSE "AlreadyExistsKeyError"
             /\ heap' = heap
             /\ last'.stores = 0
      ]_vars

\* An add under a name that differs in case from an entry was refused.
C9_Witness ==
    /\ last.op \in {"add_option", "add_section"}
    /\ last.err = "AlreadyExistsKeyError"
    /\ ~last.changed
    /\ \E s \in Sections : CaseClash(heap, s, last.name)

\* C10: add_section under a name that contains the separator raises
\* InvalidValueError, creates no section and does not call store().
C10_SeparatorRejected ==
    [][ (last'.op = "add_section" /\ HasSeparator(last'.name)) =>
          /\ last'.err = "InvalidValueError"
          /\ heap' = heap
          /\ last'.stores = 0
          /\ fp' = fp
      ]_vars

\* add_section was called under a name with the separator.
C10_Witness ==
    /\ last.op = "add_section" /\ HasSeparator(last.name)
    /\ last.err = "InvalidValueError"
    /\ ~last.changed

\* The content ends with the given blocks.
EndsWith(content, blocks) ==
    /\ Len(content) >= Len(blocks)
    /\ SubSeq(content, Len(content) - Len(blocks) + 1, Len(content)) = blocks

\* C11: a set() that changes an option's value holds the new value when it
\* returns; with store=True it has called store() once, has raised nothing
\* and the file ends with the serialization of the new tree; with
\* store=False it has not called store() and the file is as before.
C11_WriteThrough ==
    [][ (last'.op = "set" /\ last'.changed) =>
        \A s \in Sections, raw \in RawValues :
          /\ SetOption(s, last'.name, raw, TRUE) =>
                /\ last'.stores = 1
                /\ last'.err = "none"
                /\ heap'[getitem(heap', s, last'.name)].value
                      = normalize_value(heap[getitem(heap, s, last'.name)].type,
                                        raw).v
                /\ EndsWith((IF disk'.main = NoFile THEN <<>> ELSE disk'.main)
                               \o fp'.buf, Serialization(heap'))
          /\ SetOption(s, last'.name, raw, FALSE) =>
                /\ last'.stores = 0
                /\ last'.err = "none"
                /\ heap'[getitem(heap', s, last'.name)].value
                      = normalize_value(heap[getitem(heap, s, last'.name)].type,
                                        raw).v
                /\ fp' = fp /\ disk' = disk
      ]_vars

\* The default of add_option's store parameter.
ADD_OPTION_STORE == TRUE

\* section.add_option(name, value, ...) with store left unset
AddOptionUnset(s, name, value, allowed, type) ==
    AddOption(s, name, value, allowed, type, ADD_OPTION_STORE)

\* C12: an add_option that inserts its option calls store() once when store
\* is unset or True and not at all when it is False; an add_section that
\* inserts its section calls store() once when store is True, or unset with
\* a non-empty config, and not at all when it is False, or unset with an
\* empty config.
C12_PersistDefaults ==
    [][ (last'.op \in {"add_option", "add_section"} /\ last'.changed) =>
        \A s \in Sections :
          /\ \A a \in OptionArgs :
                /\ AddOptionUnset(s, last'.name, a[1], a[2], a[3])
                      => last'.stores = 1
                /\ \A st \in BOOLEAN :
                      AddOption(s, last'.name, a[1], a[2], a[3], st)
                         => last'.stores = IF st THEN 1 ELSE 0
          /\ \A config \in Configs :
                /\ AddSection(s, last'.name, config, "none")
                      => last'.stores = IF config # <<>> THEN 1 ELSE 0
                /\ AddSection(s, last'.name, config, "true") => last'.stores = 1
                /\ AddSection(s, last'.name, config, "false") => last'.stores = 0
      ]_vars

\* An add_section with a non-empty config inserted its section and stored.
C12_Witness ==
    /\ last.op = "add_section" /\ last.changed /\ last.stores = 1
    /\ \E s \in Sections :
          /\ getitem(heap, s, last.name) # NoRef
          /\ heap[getitem(heap, s, last.name)].kind = "section"
          /\ heap[getitem(heap, s, last.name)].items # <<>>

\* The names that lead from the root to section s: none for the root, the
\* section's name for a section of the root.
PathsTo(h, s) ==
    IF s = ROOT THEN {<<>>}
    ELSE {<<h[ROOT].items[i].name>> : i \in {j \in DOMAIN h[ROOT].items :
                                              h[ROOT].items[j].ref = s}}

\* What get hands back for name in section s, asked of the section and asked
\* of the root by the section's path.
Reads(h, s, name) ==
    {ConfigSection_get(h, s, <<name>>)} \cup
    {ConfigSection_get(h, ROOT, p \o <<name>>) : p \in PathsTo(h, s)}

\* C13: after an add_option that inserted its option, and after a set that
\* raised nothing, get of that name hands back the normalized value given,
\* whether asked of the section or of the root by the section's path.
C13_ReadYourWrites ==
    [][ /\ (last'.op = "add_option" /\ last'.changed) =>
            \A s \in Sections, a \in OptionArgs, st \in BOOLEAN :
              AddOption(s, last'.name, a[1], a[2], a[3], st) =>
                Reads(heap', s, last'.name) =
                  {GotValue(normalize_value(
                       IF a[3] = "" THEN DEFAULT_TYPE ELSE a[3], a[1]).v)}
        /\ (last'.op = "set" /\ last'.err = "none") =>
            \A s \in Sections, raw \in RawValues, st \in BOOLEAN :
              SetOption(s, last'.name, raw, st) =>
                Reads(heap', s, last'.name) =
                  {GotValue(normalize_value(
                       heap[getitem(heap, s, last'.name)].type, raw).v)}
      ]_vars

\* A set changed an integer option to what its text normalizes to.
C13_Witness ==
    /\ last.op = "set" /\ last.err = "none" /\ last.changed
    /\ \E s \in Sections :
          /\ getitem(heap, s, last.name) # NoRef
          /\ heap[getitem(heap, s, last.name)].type = "Int"
          /\ Reads(heap, s, last.name) = {GotValue(IntV(30))}

\* ------------------------------------------------------- concurrent callers
MaxCycles == 2     \* store() cycles begun in one behaviour

\* The config the store of the concurrent callers is seeded with.
ConcSeeds ==
    { << OptionSpec("mode", StrV("fast"), <<>>, "") >>,
      << OptionSpec("mode", StrV("fast"), <<>>, ""),
         OptionSpec("default", StrV("30"), <<>>, "") >> }
ConcNames == {"mode", "default"}

\* Callers inside store().
Storing == {c \in Callers : cycles[c].pc = "write"}

\* Thread c calls set(name, raw) on the root with store=True: the value is
\* assigned and store() builds the parser from the tree (_gen_fileconfig,
\* read_dict).  store() takes no lock: nothing keeps a second thread out.
BeginStore(c, name, raw) ==
    /\ phase = "Ready"
    /\ cycles[c].pc = "idle"
    /\ Dumps(fp.buf) + Cardinality(Storing) < MaxCycles
    /\ \E m \in {ConfigSection_set(Now, ROOT, name, raw, FALSE)} :
          /\ m.err = "none"
          /\ m.heap # heap
          /\ heap' = m.heap
          /\ cycles' = [cycles EXCEPT ![c] =
                           [pc |-> "write", name |-> name,
                            blocks |-> Serialization(m.heap)]]
    /\ UNCHANGED <<runtime, phase, trace, disk, fp, opens, last>>

\* Thread c inside parser.write(self.fp): the next block is written; the
\* call returns after the last one, or with the exception of the write.
WriteBlock(c) ==
    /\ cycles[c].pc = "write"
    /\ \E w \in {fp_write(fp, <<Head(cycles[c].blocks)>>)} :
          /\ fp' = w.fp
          /\ IF w.err # "none" \/ Tail(cycles[c].blocks) = <<>>
             THEN /\ cycles' = [cycles EXCEPT ![c] = Idle]
                  /\ last' = [op |-> "set", name |-> cycles[c].name,
                              err |-> w.err, stores |-> 1, changed |-> TRUE,
                              ref |-> NoRef]
             ELSE /\ cycles' = [cycles EXCEPT ![c].blocks = Tail(@)]
                  /\ UNCHANGED last
    /\ UNCHANGED <<runtime, phase, trace, disk, heap, opens>>

\* Two threads that set the root's options on one store.
NextConc ==
    \/ \E seed \in ConcSeeds : phase = "Created" /\ Construct(seed)
    \/ \E c \in Callers, name \in ConcNames, raw \in RawValues :
          BeginStore(c, name, raw)
    \/ \E c \in Callers : WriteBlock(c)

SpecConc == InitNew /\ [][NextConc]_vars

\* What the handle was given is whole serializations, one after the other.
RECURSIVE WholeDumps(_)
WholeDumps(content) ==
    \/ content = <<>>
    \/ /\ Len(content) >= 2
       /\ content[1].name = Split(DEFAULT_SECTION)
       /\ content[2].name = Split(SELF_SECTION)
       /\ WholeDumps(SubSeq(content, 3, Len(content)))

\* C14: store() cycles exclude each other: at most one caller is inside
\* store() at a time, and while none is the file holds whole serializations,
\* never parts of two.
C14_StoreCyclesExclusive ==
    /\ Cardinality(Storing) <= 1
    /\ Storing = {} => WholeDumps(fp.buf)

\* -------------------------------------------------------------- loading
\* Files of the running program's version: one with a top-level key, one
\* with a block for a section below a section, one with both.
FileWithTopKey ==
    << Block(Split(DEFAULT_SECTION),
             <<Item("version", StrV(VERSION)), Item("mode", StrV("30"))>>) >>
FileWithPath ==
    << Block(Split(DEFAULT_SECTION), <<Item("version", StrV(VERSION))>>),
       Block(<<"net", "proxy">>, <<Item("mode", StrV("turbo"))>>) >>
LoadFiles == {FileWithTopKey, FileWithPath, FileWithTopKey \o Tail(FileWithPath)}

InitLoad ==
    /\ runtime \in {"py2", "py3"}
    /\ phase = "Created"
    /\ trace = <<"Created">>
    /\ disk \in [main : LoadFiles, old : {NoFile}]
    /\ fp = ClosedFp
    /\ heap = NoHeap
    /\ opens = 0
    /\ last = [op |-> "none", name |-> "", err |-> "none", stores |-> 0,
               changed |-> FALSE, ref |-> NoRef]
    /\ cycles = [c \in Callers |-> Idle]

\* The lives of a store on a path that holds a file of the program's version.
SpecLoad == InitLoad /\ [][NextLife]_vars

\* The top-level keys of a file: those of its [DEFAULT] block but `version`.
TopKeys(content) ==
    LET i == BlockIndex(content, Split(DEFAULT_SECTION))
    IN IF i = 0 THEN {}
       ELSE {content[i].items[j] : j \in {n \in DOMAIN content[i].items :
                                            content[i].items[n].k # "version"}}

\* C15: after a construction on a file of the program's version, every
\* top-level key of the file is an option of the root holding the file's
\* value: of the seeded type, default and allowed values when the seed
\* registers the key, a new option of type Str when it does not.
C15_TopLevelKeysLoaded ==
    [][ last'.op = "construct" =>
        \A seed \in Seeds :
          (SameMajorMinor(disk.main) /\ Construct(seed)) =>
            \A it \in TopKeys(disk.main) :
              LET o == getitem(heap', ROOT, it.k)
                  was == getitem(SeededHeap(seed), ROOT, it.k)
              IN /\ o # NoRef
                 /\ heap'[o].kind = "option"
                 /\ IF was = NoRef
                    THEN /\ heap'[o].type = "Str"
                         /\ heap'[o].value = it.v
                    ELSE /\ heap'[o].type = SeededHeap(seed)[was].type
                         /\ heap'[o].default = SeededHeap(seed)[was].default
                         /\ heap'[o].allowed = SeededHeap(seed)[was].allowed
                         /\ normalize_value(heap'[o].type, it.v).err = "none"
                               => heap'[o].value
                                     = normalize_value(heap'[o].type, it.v).v
      ]_vars

\* C16: a constructed store has a file at its path, and once a call has
\* invoked store() the file declares the compiled-in version.
C16_FileDeclaresVersion ==
    /\ phase = "Ready" => disk.main # NoFile
    /\ (phase \in {"Ready", "Closed"} /\ last.stores > 0) =>
          Declared(FileContent) = StrV(VERSION)

\* ------------------------------------------------------------------ lookups
\* The effect of a finished lookup: the entry or the exception, nothing else.
Looked(op, name, got) ==
    /\ last' = [op |-> op, name |-> name, err |-> got.err, stores |-> 0,
                changed |-> FALSE, ref |-> got.ref]
    /\ UNCHANGED <<runtime, phase, trace, disk, fp, heap, opens, cycles>>

\* section.get_section(name)
GetSection(s, name) ==
    /\ phase = "Ready"
    /\ Looked("get_section", name, get_section(heap, s, name))

\* section.get_option(name)
GetOption(s, name) ==
    /\ phase = "Ready"
    /\ Looked("get_option", name, get_option(heap, s, name))

\* One life of a store whose entries are added without store() and looked
\* up by name, in the case they were added in and in another.
ReadNames == {"mode", "Mode", "default"}
NextRead ==
    \/ \E seed \in Seeds : phase = "Created" /\ Construct(seed)
    \/ \E s \in Sections, name \in ReadNames, a \in NameArgs :
          AddOption(s, name, a[1], a[2], a[3], FALSE)
    \/ \E s \in Sections, name \in ReadNames :
          AddSection(s, name, <<>>, "false")
    \/ \E s \in Sections, name \in ReadNames : GetSection(s, name)
    \/ \E s \in Sections, name \in ReadNames : GetOption(s, name)

SpecRead == InitNew /\ [][NextRead]_vars

\* What section s holds under name: "absent", "option" or "section".
Variant(h, s, name) ==
    IF getitem(h, s, name) = NoRef THEN "absent"
    ELSE h[getitem(h, s, name)].kind

\* C17: get_section and get_option raise KeyError for a name that is absent
\* and InvalidValueError for an entry of the other variant, return the
\* entry of their variant, and change nothing.
C17_VariantLookups ==
    [][ /\ last'.op = "get_section" =>
            \A s \in Sections :
              GetSection(s, last'.name) =>
                /\ heap' = heap /\ fp' = fp /\ disk' = disk
                /\ last'.err =
                     CASE Variant(heap, s, last'.name) = "absent" -> "KeyError"
                       [] Variant(heap, s, last'.name) = "option"
                            -> "InvalidValueError"
                       [] OTHER -> "none"
                /\ last'.ref = IF Variant(heap, s, last'.name) = "section"
                               THEN getitem(heap, s, last'.name) ELSE NoRef
        /\ last'.op = "get_option" =>
            \A s \in Sections :
              GetOption(s, last'.name) =>
                /\ heap' = heap /\ fp' = fp /\ disk' = disk
                /\ last'.err =
                     CASE Variant(heap, s, last'.name) = "absent" -> "KeyError"
                       [] Variant(heap, s, last'.name) = "section"
                            -> "InvalidValueError"
                       [] OTHER -> "none"
                /\ last'.ref = IF Variant(heap, s, last'.name) = "option"
                               THEN getitem(heap, s, last'.name) ELSE NoRef
      ]_vars

\* get_option was asked for a name that is a section.
C17_Witness ==
    /\ last.op = "get_option" /\ last.err = "InvalidValueError"
    /\ \E s \in Sections : Variant(heap, s, last.name) = "section"

\* The section the names lead to from section s, NoRef if one of them is
\* absent or an option.
RECURSIVE Resolve(_, _, _)
Resolve(h, s, names) ==
    IF names = <<>> THEN s
    ELSE IF get_section(h, s, Head(names)).err # "none" THEN NoRef
    ELSE Resolve(h, get_section(h, s, Head(names)).ref, Tail(names))

\* The blocks of a file that are headed by a section path.
PathBlocks(content) ==
    {content[i] : i \in {j \in DOMAIN content :
        content[j].name \notin {Split(DEFAULT_SECTION), Split(SELF_SECTION)}}}

\* C19: after a construction on a file of the program's version, every
\* prefix of every section path of the file resolves to a section, and the
\* keys of the path's block are options of the innermost section holding
\* the file's values.
C19_SectionPathsResolved ==
    [][ last'.op = "construct" =>
        \A seed \in Seeds :
          (SameMajorMinor(disk.main) /\ Construct(seed)) =>
            \A b \in PathBlocks(disk.main) :
              /\ \A k \in 1 .. Len(b.name) :
                    Resolve(heap', ROOT, SubSeq(b.name, 1, k)) # NoRef
              /\ \A j \in DOMAIN b.items :
                    \E o \in Options(heap') :
                       /\ o.path = b.name \o <<b.items[j].k>>
                       /\ to_filevalue(o.value) = b.items[j].v
      ]_vars

\* The entries below section s, at any depth.
RECURSIVE Below(_, _)
Below(h, s) ==
    UNION { {h[s].items[i].ref} \cup Below(h, h[s].items[i].ref)
            : i \in DOMAIN h[s].items }

\* C20: reset() on a section leaves every option below it, at any depth,
\* with its value equal to its default; the defaults, types and allowed
\* values of these options, the names and entries of the sections, and
\* every entry outside the section are as they were.
C20_ResetCascades ==
    [][ \A s \in Sections :
          Reset(s) =>
            /\ \A o \in Below(heap, s) :
                  heap[o].kind = "option" =>
                     /\ heap'[o].kind = "option"
                     /\ heap'[o].value = heap[o].default
                     /\ heap'[o].default = heap[o].default
                     /\ heap'[o].type = heap[o].type
                     /\ heap'[o].allowed = heap[o].allowed
            /\ \A o \in Below(heap, s) \cup {s} :
                  heap[o].kind = "section" => heap'[o] = heap[o]
            /\ \A o \in ObjIds \ (Below(heap, s) \cup {s}) :
                  heap'[o] = heap[o]
      ]_vars

\* A reset of a section changed the value of an option that lies below a
\* section of that section.
C20_Witness ==
    /\ last.op = "reset"
    /\ last.changed
    /\ last.ref \in Sections
    /\ \E t \in Below(heap, last.ref) :
          /\ heap[t].kind = "section"
          /\ \E o \in Below(heap, t) : heap[o].kind = "option"
    /\ \A o \in Below(heap, last.ref) :
          heap[o].kind = "option" => o \in UNION {Below(heap, t) :
              t \in {u \in Below(heap, last.ref) : heap[u].kind = "section"}}

\* section.update(iterable): bulk update with the entries given
Update(s, iterable) ==
    /\ phase = "Ready"
    /\ Cardinality(FreeIds(heap)) >= Len(iterable)
    /\ \E u \in {update(heap, s, iterable)} :
          Return("update", "", [Now EXCEPT !.heap = u.heap, !.err = u.err])
    /\ UNCHANGED <<runtime, phase, trace, disk, opens>>

\* The iterables offered to update(): a description of an option, or an
\* entry object of the tree under a name.
UpdateNames == {"mode", "copy"}
Iterables ==
    {<<OptionSpec(n, StrV("fast"), <<>>, "")>> : n \in UpdateNames}
       \cup {<<InstanceSpec(n, r)>> : n \in UpdateNames, r \in Allocated}

\* One life of a store that is built with add_option, add_section and
\* update, nothing being stored.
NextAlias ==
    \/ phase = "Created" /\ Construct(<<>>)
    \/ \E s \in Sections, name \in PlainNames :
          AddOption(s, name, StrV("fast"), <<>>, "", FALSE)
    \/ \E s \in Sections, name \in PlainNames, config \in Configs :
          AddSection(s, name, config, "false")
    \/ \E s \in Sections, it \in Iterables : Update(s, it)

SpecAlias == InitNew /\ [][NextAlias]_vars

\* The entries of the sections in S.
Entries(h, S) ==
    UNION {{h[s].items[i].ref : i \in DOMAIN h[s].items} : s \in S}

\* The objects reached from those in S in at most n steps down the tree.
RECURSIVE Reach(_, _, _)
Reach(h, S, n) ==
    IF n = 0 THEN S ELSE Reach(h, S \cup Entries(h, S), n - 1)

\* The sections of the tree: the root and the sections below it.
TreeSections(h) ==
    {s \in Reach(h, {ROOT}, MaxObj + 1) : h[s].kind = "section"}

\* C21: no entry object is an entry of two sections of the tree or of one
\* section under two names, and no section of the tree is below itself.
C21_NoAliasingNoCycles ==
    /\ \A s, t \in TreeSections(heap) :
          \A i \in DOMAIN heap[s].items, j \in DOMAIN heap[t].items :
              heap[s].items[i].ref = heap[t].items[j].ref => (s = t /\ i = j)
    /\ \A s \in TreeSections(heap) :
          s \notin Reach(heap, Entries(heap, {s}), MaxObj + 1)

\* The arguments offered to the calls that may raise: a name that is new,
\* one with the separator and the root's reserved name; a value that is
\* fine, one that is no integer for its type and a type that is no member
\* of InputType; a config that is empty and one whose option cannot be
\* built.
AddNames == {"mode", "a:b", "default"}
AddArgs ==
    { <<StrV("fast"), <<>>, "">>,
      <<StrV("fast"), <<>>, "Int">>,
      <<StrV("fast"), <<>>, "Bogus">> }
AddConfigs == { <<>>, << OptionSpec("mode", StrV("fast"), <<>>, "Int") >> }

\* One life of a store whose add_option and add_section calls are handed
\* good and bad arguments.
NextAdd ==
    \/ phase = "Created" /\ Construct(<<>>)
    \/ \E s \in Sections, name \in AddNames, a \in AddArgs, st \in BOOLEAN :
          AddOption(s, name, a[1], a[2], a[3], st)
    \/ \E s \in Sections, name \in AddNames, config \in AddConfigs,
          st \in {"none", "true", "false"} : AddSection(s, name, config, st)

SpecAdd == InitNew /\ [][NextAdd]_vars

\* The exceptions add_option and add_section raise for their arguments.
ArgumentErrors == {"AlreadyExistsKeyError", "InvalidValueError", "ValueError"}

\* C23: an add_option or add_section call that raises for its name, its
\* type or its value leaves every section's entries as they were, and
\* store() was not called: nothing was written.
C23_FailedAddLeavesSection ==
    [][ (last'.op \in {"add_option", "add_section"}
            /\ last'.err \in ArgumentErrors) =>
          /\ heap' = heap
          /\ last'.stores = 0
          /\ fp' = fp
      ]_vars

\* An add call on a section that has entries raised for its arguments.
C23_Witness ==
    /\ last.op \in {"add_option", "add_section"}
    /\ last.err \in ArgumentErrors
    /\ heap[ROOT].items # <<>>

====
